---- MODULE Spec2Model ----
(***************************************************************************)
(* Model of vkb::Subpass (framework/rendering/subpass.h): the attachment   *)
(* lists and flags a subpass owns, and the two light-packing templates     *)
(* allocate_lights<T> and allocate_set_num_lights<T>, which fill a         *)
(* fixed-capacity light container from the scene's lights and upload it    *)
(* into a region of the active render frame.                               *)
(*                                                                         *)
(* Floats are modelled by integers; a node's rotation is a quarter turn    *)
(* about the z axis (0..3), applied to integer vectors.                    *)
(***************************************************************************)
EXTENDS Integers, Sequences, FiniteSets, TLC

VARIABLES
    ndebug,                 \* build: TRUE when NDEBUG is defined (assert is a no-op)
    nodes,                  \* sg::Node -> its world transform
    lights,                 \* sg::Light -> type, properties, owning node
    scene_lights,           \* the caller's std::vector<sg::Light *>
    use_dynamic_resources,  \* Subpass -> bool
    depth_stencil_state,    \* Subpass -> DepthStencilState
    input_attachments,      \* Subpass -> std::vector<uint32_t>
    output_attachments,     \* Subpass -> std::vector<uint32_t>
    render_target,          \* active frame's render target: its two attachment lists
    requests,               \* active frame: the allocate_buffer requests, in order
    buffers,                \* active frame: region -> uploaded contents
    packed,                 \* packing calls made so far in the frame
    call                    \* the last operation called and what it returned

vars == <<ndebug, nodes, lights, scene_lights, use_dynamic_resources,
          depth_stencil_state, input_attachments, output_attachments,
          render_target, requests, buffers, packed, call>>

sceneVars == <<nodes, lights, scene_lights>>
subpassVars == <<use_dynamic_resources, depth_stencil_state,
                 input_attachments, output_attachments>>
frameVars == <<requests, buffers>>

----------------------------------------------------------------------------
\* Bounds of the model.

\* longest scene_lights list
MaxSceneLights == 3
\* capacity of the lights array of the two container variants
ForwardCapacity == 2
DeferredCapacity == 3
\* packing calls made in the one frame that is modelled
MaxCalls == 2

\* largest max_lights / num_lights a caller passes
MaxLightsArg == DeferredCapacity

Subpasses == {1, 2}
LightIds == {1, 2}
NodeIds == {1, 2}
Variants == {"ForwardLights", "DeferredLights"}

\* attachment index lists a pipeline passes to the setters
AttachmentLists == {<<>>, <<0>>, <<1, 2>>}

----------------------------------------------------------------------------
\* Data.

NoRegion == 0
VK_BUFFER_USAGE_UNIFORM_BUFFER_BIT == "uniform_buffer"

SizeOfLight == 64

Capacity(T) == IF T = "ForwardLights" THEN ForwardCapacity ELSE DeferredCapacity

\* sizeof(T): the count, padded to the record alignment, and the array
SizeOf(T) == 16 + SizeOfLight * Capacity(T)

\* to_u32: size_t narrowed to uint32_t, the value modulo 2^32 taken in two
\* 16-bit halves
to_u32(x) == (x % 65536) + 65536 * ((x \div 65536) % 65536)

\* glm::quat * glm::vec3, for a quarter turn q about z
Rotate(q, v) ==
    CASE q = 0 -> v
      [] q = 1 -> <<0 - v[2], v[1], v[3]>>
      [] q = 2 -> <<0 - v[1], 0 - v[2], v[3]>>
      [] q = 3 -> <<v[2], 0 - v[1], v[3]>>

\* glm::vec4(vec3, float)
Vec4(v, w) == <<v[1], v[2], v[3], w>>

\* the lambda allocate_lights hands to std::transform
LambdaRecord(light) ==
    LET properties == lights[light].properties
        transform == nodes[lights[light].node]
    IN [position |-> Vec4(transform.translation, lights[light].light_type),
        color |-> Vec4(properties.color, properties.intensity),
        direction |-> Vec4(Rotate(transform.rotation, properties.direction),
                           properties.range),
        info |-> <<properties.inner_cone_angle, properties.outer_cone_angle>>]

\* the Light built in the body of allocate_set_num_lights' loop
LoopRecord(light) ==
    LET properties == lights[light].properties
        transform == nodes[lights[light].node]
    IN [position |-> Vec4(transform.translation, lights[light].light_type),
        color |-> Vec4(properties.color, properties.intensity),
        direction |-> Vec4(Rotate(transform.rotation, properties.direction),
                           properties.range),
        info |-> <<properties.inner_cone_angle, properties.outer_cone_angle>>]

----------------------------------------------------------------------------
\* Initial state: a scene, and subpasses as their member initializers leave
\* them.

\* world transforms of the scene's nodes
NodeTransforms ==
    [n \in NodeIds |->
        IF n = 1 THEN [translation |-> <<1, 0, 0>>, rotation |-> 1]
                 ELSE [translation |-> <<0, 2, 1>>, rotation |-> 2]]

\* sg::Light 1 is a point light on node 1, sg::Light 2 a spot light on node 2
SceneLightComponents ==
    [l \in LightIds |->
        IF l = 1
        THEN [light_type |-> 1, node |-> 1,
              properties |-> [color |-> <<1, 1, 1>>, intensity |-> 2,
                              direction |-> <<0, 1, 0>>, range |-> 5,
                              inner_cone_angle |-> 0, outer_cone_angle |-> 0]]
        ELSE [light_type |-> 2, node |-> 2,
              properties |-> [color |-> <<1, 0, 0>>, intensity |-> 3,
                              direction |-> <<1, 0, 1>>, range |-> 7,
                              inner_cone_angle |-> 1, outer_cone_angle |-> 2]]]

SeqsUpTo(S, n) == UNION { [1..k -> S] : k \in 0..n }

\* the fields of call: the operation, its receiver and arguments (T and arg for
\* a packing call, list for an attachment setter, flag for the dynamic-resources
\* setter); how it ended; the light_info it built (count, and lights as far as
\* the array was written); the indices written through light_info.lights; the
\* region returned
NoCall == [op |-> "none", subpass |-> 0, T |-> "none", arg |-> 0, list |-> <<>>,
           flag |-> FALSE, status |-> "none", count |-> 0, lights |-> <<>>,
           written |-> {}, returned |-> NoRegion]

\* a subpass whose output list starts empty, like its input list
SubpassWithoutOutput ==
    /\ use_dynamic_resources = [s \in Subpasses |-> FALSE]
    /\ depth_stencil_state = [s \in Subpasses |-> "default"]
    /\ input_attachments = [s \in Subpasses |-> <<>>]
    /\ output_attachments = [s \in Subpasses |-> <<>>]

\* the default member initializers of Subpass
SubpassMembers ==
    /\ use_dynamic_resources = [s \in Subpasses |-> FALSE]
    /\ depth_stencil_state = [s \in Subpasses |-> "default"]
    /\ input_attachments = [s \in Subpasses |-> <<>>]
    /\ output_attachments = [s \in Subpasses |-> <<0>>]

Init ==
    /\ ndebug \in BOOLEAN
    /\ nodes = NodeTransforms
    /\ lights = SceneLightComponents
    /\ scene_lights \in SeqsUpTo(LightIds, MaxSceneLights)
    /\ SubpassMembers
    /\ render_target = [input_attachments |-> <<>>, output_attachments |-> <<0>>]
    /\ requests = <<>>
    /\ buffers = <<>>
    /\ packed = 0
    /\ call = NoCall

----------------------------------------------------------------------------
\* Subpass: attachment lists and flags.

get_input_attachments(s) == input_attachments[s]

get_output_attachments(s) == output_attachments[s]

set_input_attachments(s, input) ==
    /\ input_attachments' = [input_attachments EXCEPT ![s] = input]
    /\ call' = [NoCall EXCEPT !.op = "set_input_attachments", !.subpass = s,
                              !.list = input, !.status = "ok"]
    /\ UNCHANGED <<ndebug, sceneVars, use_dynamic_resources, depth_stencil_state,
                   output_attachments, render_target, frameVars, packed>>

\* a setter that adds to the list it should replace
set_output_attachments_appending(s, output) ==
    /\ output_attachments' = [output_attachments EXCEPT ![s] = @ \o output]
    /\ call' = [NoCall EXCEPT !.op = "set_output_attachments", !.subpass = s,
                              !.list = output, !.status = "ok"]
    /\ UNCHANGED <<ndebug, sceneVars, use_dynamic_resources, depth_stencil_state,
                   input_attachments, render_target, frameVars, packed>>

set_output_attachments(s, output) ==
    /\ output_attachments' = [output_attachments EXCEPT ![s] = output]
    /\ call' = [NoCall EXCEPT !.op = "set_output_attachments", !.subpass = s,
                              !.list = output, !.status = "ok"]
    /\ UNCHANGED <<ndebug, sceneVars, use_dynamic_resources, depth_stencil_state,
                   input_attachments, render_target, frameVars, packed>>

set_use_dynamic_resources(s, dynamic) ==
    /\ use_dynamic_resources' = [use_dynamic_resources EXCEPT ![s] = dynamic]
    /\ call' = [NoCall EXCEPT !.op = "set_use_dynamic_resources", !.subpass = s,
                              !.flag = dynamic, !.status = "ok"]
    /\ UNCHANGED <<ndebug, sceneVars, depth_stencil_state, input_attachments,
                   output_attachments, render_target, frameVars, packed>>

\* the active frame's render target takes the subpass's two lists
update_render_target_attachments(s) ==
    /\ render_target' = [input_attachments |-> input_attachments[s],
                         output_attachments |-> output_attachments[s]]
    /\ call' = [NoCall EXCEPT !.op = "update_render_target_attachments",
                              !.subpass = s, !.status = "ok"]
    /\ UNCHANGED <<ndebug, sceneVars, subpassVars, frameVars, packed>>

----------------------------------------------------------------------------
\* Light packing.

\* render_frame.allocate_buffer hands out a region of the frame that no
\* earlier request of the frame got: the next one
allocate_buffer == Len(requests) + 1

\* an upload that keeps to the region the frame handed out last, once there
\* is one, instead of asking for a new one
UploadLightsIntoLastRegion(c, T, count, recs) ==
    IF requests = <<>>
    THEN /\ requests' = <<[usage |-> VK_BUFFER_USAGE_UNIFORM_BUFFER_BIT,
                           size |-> SizeOf(T)]>>
         /\ buffers' = <<[count |-> count, lights |-> recs]>>
         /\ call' = [c EXCEPT !.status = "ok", !.count = count, !.lights = recs,
                              !.returned = 1]
    ELSE /\ requests' = requests
         /\ buffers' = [buffers EXCEPT ![Len(buffers)] =
                                           [count |-> count, lights |-> recs]]
         /\ call' = [c EXCEPT !.status = "ok", !.count = count, !.lights = recs,
                              !.returned = Len(requests)]

\* one allocate_buffer(VK_BUFFER_USAGE_UNIFORM_BUFFER_BIT, sizeof(T)) request,
\* light_buffer.update(light_info), return light_buffer
UploadLights(c, T, count, recs) ==
    LET light_buffer == allocate_buffer
    IN /\ requests' = Append(requests, [usage |-> VK_BUFFER_USAGE_UNIFORM_BUFFER_BIT,
                                        size |-> SizeOf(T)])
       /\ buffers' = Append(buffers, [count |-> count, lights |-> recs])
       /\ call' = [c EXCEPT !.status = "ok", !.count = count, !.lights = recs,
                            !.returned = light_buffer]

\* what light_info.count may hold after a write past the end of
\* light_info.lights: T's layout decides whether count lies behind the array
\* (the bits of a record's float, 1.0f, read as an integer)
ClobberedCounts(count) == {count, 1065353216}

\* Writing the records at the indices `written` of light_info.lights, then the
\* upload. light_info is a local: a write at an index >= Capacity(T) lands in
\* the call's own stack frame and is undefined behaviour, after which the call
\* either dies or runs on with the part of light_info that took the records
\* in bounds.
WriteLights(c, T, count, written, records) ==
    LET inside == {i \in written : i < Capacity(T)}
        recs == [i \in inside |-> records[i]]
        w == [c EXCEPT !.written = written]
    IN IF written \subseteq 0 .. Capacity(T) - 1
       THEN UploadLights(w, T, count, recs)
       ELSE \/ /\ call' = [w EXCEPT !.status = "crashed"]
               /\ UNCHANGED frameVars
            \/ \E k \in ClobberedCounts(count) : UploadLights(w, T, k, recs)

\* a packing call that stores the world-space direction it computed back
\* into the light
PackingWritesDirectionBack ==
    /\ lights' = [l \in LightIds |->
                     [lights[l] EXCEPT !.properties.direction =
                          Rotate(nodes[lights[l].node].rotation, @)]]
    /\ UNCHANGED <<ndebug, nodes, scene_lights, subpassVars, render_target>>

\* Both templates take scene_lights by const reference, read the lights and
\* their nodes, and assign no member of the subpass.
PackingReadsOnly ==
    UNCHANGED <<ndebug, sceneVars, subpassVars, render_target>>

\* a capacity check that lets a list of max_lights + 1 lights through
AssertPassesOneMore(size, max_lights) ==
    ndebug \/ size <= max_lights + 1

\* assert(scene_lights.size() <= max_lights): checked unless the build defines
\* NDEBUG, which makes assert expand to nothing
AssertPasses(size, max_lights) ==
    ndebug \/ size <= max_lights

allocate_lights(s, T, max_lights) ==
    LET size == Len(scene_lights)
        c == [NoCall EXCEPT !.op = "allocate_lights", !.subpass = s, !.T = T,
                            !.arg = max_lights]
        count == to_u32(size)
        written == 0 .. size - 1
        records == [i \in written |-> LambdaRecord(scene_lights[i + 1])]
    IN /\ packed < MaxCalls
       /\ packed' = packed + 1
       /\ PackingReadsOnly
       /\ IF AssertPasses(size, max_lights)
          THEN WriteLights(c, T, count, written, records)
          ELSE /\ call' = [c EXCEPT !.status = "assertion_failed"]
               /\ UNCHANGED frameVars

\* what a Light built from the object behind an invalid sg::Light pointer may
\* hold
GarbageRecords ==
    {[position |-> <<0, 0, 0, 0>>, color |-> <<0, 0, 0, 0>>,
      direction |-> <<0, 0, 0, 0>>, info |-> <<0, 0>>]}
    \cup {LoopRecord(l) : l \in LightIds}

allocate_set_num_lights(s, T, num_lights) ==
    LET size == Len(scene_lights)
        c == [NoCall EXCEPT !.op = "allocate_set_num_lights", !.subpass = s,
                            !.T = T, !.arg = num_lights]
        count == to_u32(num_lights)
        written == 0 .. num_lights - 1
        light(i) == IF i < size THEN scene_lights[i + 1] ELSE scene_lights[size]
        lights_vector == [i \in written |-> LoopRecord(light(i))]
    IN /\ packed < MaxCalls
       /\ packed' = packed + 1
       /\ PackingReadsOnly
       /\ IF size = 0 /\ num_lights > 0
          THEN \* scene_lights.back() of an empty vector: undefined behaviour
               \/ /\ call' = [c EXCEPT !.status = "crashed"]
                  /\ UNCHANGED frameVars
               \/ \E g \in GarbageRecords :
                      WriteLights(c, T, count, written, [i \in written |-> g])
          ELSE WriteLights(c, T, count, written, lights_vector)

----------------------------------------------------------------------------
\* Specifications.

NextAttach ==
    \E s \in Subpasses :
        \/ \E input \in AttachmentLists : set_input_attachments(s, input)
        \/ \E output \in AttachmentLists : set_output_attachments(s, output)
        \/ \E dynamic \in BOOLEAN : set_use_dynamic_resources(s, dynamic)
        \/ update_render_target_attachments(s)

NextLights ==
    \E s \in Subpasses, T \in Variants, n \in 0 .. MaxLightsArg :
        \/ allocate_lights(s, T, n)
        \/ allocate_set_num_lights(s, T, n)

\* every operation of a subpass; the two specifications below take the
\* attachment operations and the packing operations apart
Next == NextAttach \/ NextLights

Spec == Init /\ [][Next]_vars

\* the packing calls of one frame, over every scene and build
SpecLights == Init /\ [][NextLights]_vars

\* the configuration of subpasses and render target, over one scene
InitAttach == Init /\ ~ndebug /\ scene_lights = <<1, 2>>

SpecAttach == InitAttach /\ [][NextAttach]_vars

----------------------------------------------------------------------------
\* Vocabulary of the properties.

Packing == {"allocate_lights", "allocate_set_num_lights"}

\* a step in which a packing call is made; call' then describes that call
PackingStep == packed' = packed + 1

\* the per-light transform of the contract: position = world translation of
\* the light's node + light type, color = color + intensity, direction =
\* the node's world rotation applied to the local direction + range, info =
\* the two cone angles
LightRecord(l) ==
    LET n == nodes[lights[l].node]
        p == lights[l].properties
        d == Rotate(n.rotation, p.direction)
    IN [position |-> n.translation \o <<lights[l].light_type>>,
        color |-> p.color \o <<p.intensity>>,
        direction |-> d \o <<p.range>>,
        info |-> <<p.inner_cone_angle, p.outer_cone_angle>>]

\* the container of call c holds record r at index i
HasRecord(c, i, r) == i \in DOMAIN c.lights /\ c.lights[i] = r

\* call c ended normally and the region it returned holds its container
Uploaded(c) ==
    /\ c.status = "ok"
    /\ c.returned \in 1 .. Len(buffers)
    /\ buffers[c.returned] = [count |-> c.count, lights |-> c.lights]

\* the light the padding policy takes for record i
PaddedLight(i) ==
    IF i < Len(scene_lights) THEN scene_lights[i + 1]
                             ELSE scene_lights[Len(scene_lights)]

----------------------------------------------------------------------------
\* The clamp policy.

\* C1: whenever allocate_lights<T>(L, max_lights) is called with
\* |L| <= max_lights, it uploads a container whose count is |L| and whose
\* record i, for every i < |L|, is the per-light transform of L[i].
C1_RecordsInOrder ==
    (call.op = "allocate_lights" /\ Len(scene_lights) <= call.arg) =>
        /\ Uploaded(call)
        /\ call.count = Len(scene_lights)
        /\ \A i \in 0 .. Len(scene_lights) - 1 :
               HasRecord(call, i, LightRecord(scene_lights[i + 1]))

\* C1 holds of the calls whose list fits the array of T.
C1_WithinCapacity ==
    (call.op = "allocate_lights" /\ Len(scene_lights) <= call.arg
         /\ Len(scene_lights) <= Capacity(call.T)) =>
        /\ Uploaded(call)
        /\ call.count = Len(scene_lights)
        /\ \A i \in 0 .. Len(scene_lights) - 1 :
               HasRecord(call, i, LightRecord(scene_lights[i + 1]))

C1_WithinCapacityCase ==
    /\ call.op = "allocate_lights" /\ call.status = "ok"
    /\ Len(scene_lights) = 2 /\ scene_lights[1] # scene_lights[2]

----------------------------------------------------------------------------
\* The padding policy.

\* C2: whenever allocate_set_num_lights<T>(L, n) is called with L non-empty,
\* it uploads a container whose count is n, whose record i is the transform
\* of L[i] for i < min(n, |L|) and the transform of the last element of L for
\* |L| <= i < n.
C2_PaddedToCount ==
    (call.op = "allocate_set_num_lights" /\ scene_lights # <<>>) =>
        /\ Uploaded(call)
        /\ call.count = call.arg
        /\ \A i \in 0 .. call.arg - 1 :
               HasRecord(call, i, LightRecord(PaddedLight(i)))

\* C2 holds of the calls whose n fits the array of T.
C2_WithinCapacity ==
    (call.op = "allocate_set_num_lights" /\ scene_lights # <<>>
         /\ call.arg <= Capacity(call.T)) =>
        /\ Uploaded(call)
        /\ call.count = call.arg
        /\ \A i \in 0 .. call.arg - 1 :
               HasRecord(call, i, LightRecord(PaddedLight(i)))

C2_WithinCapacityCase ==
    /\ call.op = "allocate_set_num_lights" /\ call.status = "ok"
    /\ Len(scene_lights) = 1 /\ call.arg = 3 /\ call.T = "DeferredLights"
    /\ call.lights[1] = call.lights[0] /\ call.lights[2] = call.lights[0]

----------------------------------------------------------------------------
\* Capacity.

\* C3: every packing call writes records only at indices below the capacity
\* of T, and the container it uploads has count <= that capacity.
C3_CountWithinCapacity ==
    (call.op \in Packing) =>
        /\ call.written \subseteq 0 .. Capacity(call.T) - 1
        /\ call.status = "ok" => call.count <= Capacity(call.T)

----------------------------------------------------------------------------
\* Precondition violations.

\* a call that ended in a failed assertion before it did anything: no record
\* written or built, no buffer requested or uploaded, nothing returned
FailedAtOnce ==
    /\ call'.status = "assertion_failed"
    /\ call'.written = {}
    /\ DOMAIN call'.lights = {}
    /\ call'.returned = NoRegion
    /\ UNCHANGED frameVars

\* C4: a call allocate_lights<T>(L, max_lights) with |L| > max_lights ends in
\* a failed assertion before any record is written, any buffer requested or
\* uploaded, and returns no allocation.
C4_OversizedListAsserts ==
    [][(PackingStep /\ call'.op = "allocate_lights"
            /\ Len(scene_lights) > call'.arg) => FailedAtOnce]_vars

\* C4, amended: in a build that keeps assertions (NDEBUG not defined), a call
\* allocate_lights<T>(L, max_lights) with |L| > max_lights ends in a failed
\* assertion before any record is written, any buffer requested or uploaded,
\* and returns no allocation.
C4_WithAssertions ==
    [][(PackingStep /\ call'.op = "allocate_lights" /\ ~ndebug
            /\ Len(scene_lights) > call'.arg) => FailedAtOnce]_vars

C4_WithAssertionsCase ==
    /\ call.op = "allocate_lights" /\ ~ndebug
    /\ Len(scene_lights) > call.arg /\ call.status = "assertion_failed"

\* C5: a call allocate_set_num_lights<T>(L, n) with L empty and n > 0 is
\* fatal at once: it ends in a failed assertion, or at least dies, with no
\* record built from the empty list, no buffer requested or uploaded and
\* nothing returned.
C5_EmptyListIsFatal ==
    [][(PackingStep /\ call'.op = "allocate_set_num_lights"
            /\ scene_lights = <<>> /\ call'.arg > 0) =>
           /\ call'.status \in {"assertion_failed", "crashed"}
           /\ call'.written = {}
           /\ DOMAIN call'.lights = {}
           /\ call'.returned = NoRegion
           /\ UNCHANGED frameVars]_vars

----------------------------------------------------------------------------
\* The frame's allocator.

\* C8: every packing call that ends normally makes one allocate_buffer
\* request, for a uniform buffer of sizeof(T) bytes, uploads its container
\* into the region that request gave and returns that region; the requests
\* and the contents of the regions handed out before stay as they were, so k
\* such calls make k requests.
C8_OneFreshRegionPerCall ==
    [][(PackingStep /\ call'.status = "ok") =>
           /\ Len(requests') = Len(requests) + 1
           /\ SubSeq(requests', 1, Len(requests)) = requests
           /\ requests'[Len(requests')] =
                  [usage |-> VK_BUFFER_USAGE_UNIFORM_BUFFER_BIT,
                   size |-> SizeOf(call'.T)]
           /\ call'.returned = Len(requests')
           /\ call'.returned \notin 1 .. Len(requests)
           /\ Len(buffers') = Len(requests')
           /\ buffers'[call'.returned] =
                  [count |-> call'.count, lights |-> call'.lights]
           /\ \A r \in 1 .. Len(buffers) : buffers'[r] = buffers[r]]_vars

\* two calls have ended normally, with different containers in two regions
C8_TwoRegions ==
    /\ packed = 2 /\ Len(requests) = 2 /\ Len(buffers) = 2
    /\ call.status = "ok" /\ call.returned = 2
    /\ buffers[1] # buffers[2]
    /\ requests[1].size # requests[2].size

----------------------------------------------------------------------------
\* What packing leaves alone.

\* C9: a packing call changes nothing but the frame's allocator and the new
\* region: the lights, their nodes, the scene_lights list, the subpasses'
\* attachment lists, depth/stencil state and dynamic-resources flags, and the
\* render target are as before.
C9_PackingOnlyReads ==
    [][PackingStep =>
           UNCHANGED <<lights, nodes, scene_lights, input_attachments,
                       output_attachments, depth_stencil_state,
                       use_dynamic_resources, render_target>>]_vars

\* both policies have run to the end on a list of two different lights
C9_BothPoliciesRan ==
    /\ packed = 2 /\ Len(requests) = 2 /\ call.status = "ok"
    /\ call.op = "allocate_set_num_lights"
    /\ Len(scene_lights) = 2 /\ scene_lights[1] # scene_lights[2]
    /\ DOMAIN buffers[1].lights = {0, 1} /\ buffers[1].count = 2

----------------------------------------------------------------------------
\* The two policies compared.

\* C10: when allocate_lights<T>(L, max_lights) with |L| <= max_lights is
\* followed by allocate_set_num_lights<T>(L, |L|), both build a container,
\* with the same count and the same records at the indices 0 .. |L|-1.
C10_PoliciesAgree ==
    [][(PackingStep /\ call.op = "allocate_lights"
            /\ call'.op = "allocate_set_num_lights" /\ call'.T = call.T
            /\ call'.arg = Len(scene_lights)
            /\ Len(scene_lights) <= call.arg) =>
           /\ call.status = "ok" /\ call'.status = "ok"
           /\ call'.count = call.count
           /\ \A i \in 0 .. Len(scene_lights) - 1 :
                  /\ i \in DOMAIN call.lights
                  /\ HasRecord(call', i, call.lights[i])]_vars

\* C10 holds of the lists that fit the array of T.
C10_WithinCapacity ==
    [][(PackingStep /\ call.op = "allocate_lights"
            /\ call'.op = "allocate_set_num_lights" /\ call'.T = call.T
            /\ call'.arg = Len(scene_lights)
            /\ Len(scene_lights) <= call.arg
            /\ Len(scene_lights) <= Capacity(call.T)) =>
           /\ call.status = "ok" /\ call'.status = "ok"
           /\ call'.count = call.count
           /\ \A i \in 0 .. Len(scene_lights) - 1 :
                  /\ i \in DOMAIN call.lights
                  /\ HasRecord(call', i, call.lights[i])]_vars

----------------------------------------------------------------------------
\* Attachments.

\* C6: a setter leaves its argument as the subpass's list, whatever the list
\* was, and nothing else changes a subpass's lists, so the getters return the
\* argument of the most recent setter; update_render_target_attachments
\* leaves the subpass's two lists, as they are at the call, as the render
\* target's, and nothing else changes the render target.
C6_ListsReplacedAndPropagated ==
    [][/\ \A s \in Subpasses :
              /\ get_input_attachments(s)' =
                     IF call'.op = "set_input_attachments" /\ call'.subpass = s
                     THEN call'.list ELSE get_input_attachments(s)
              /\ get_output_attachments(s)' =
                     IF call'.op = "set_output_attachments" /\ call'.subpass = s
                     THEN call'.list ELSE get_output_attachments(s)
       /\ render_target' =
              IF call'.op = "update_render_target_attachments"
              THEN [input_attachments |-> get_input_attachments(call'.subpass),
                    output_attachments |-> get_output_attachments(call'.subpass)]
              ELSE render_target]_vars

\* subpass 2's lists, both set to something shorter or other than before,
\* have been pushed to the render target over subpass 1's
C6_ReplacedListsPropagated ==
    /\ call.op = "update_render_target_attachments" /\ call.subpass = 2
    /\ render_target = [input_attachments |-> <<1, 2>>, output_attachments |-> <<>>]
    /\ get_input_attachments(2) = <<1, 2>> /\ get_output_attachments(2) = <<>>
    /\ get_input_attachments(1) = <<0>> /\ get_output_attachments(1) = <<1, 2>>

\* C7: as long as no setter has been called, whatever packing calls have
\* been made, every subpass has the output attachment list <<0>> (one entry,
\* index 0), no input attachments, and the dynamic-resources flag off.
C7_Defaults ==
    \A s \in Subpasses :
        /\ get_output_attachments(s) = <<0>>
        /\ Len(get_output_attachments(s)) = 1
        /\ get_input_attachments(s) = <<>>
        /\ use_dynamic_resources[s] = FALSE

\* the subpasses as constructed, nothing called yet
C7_JustConstructed ==
    /\ call.op = "none" /\ packed = 0
    /\ \A s \in Subpasses :
           /\ Len(get_output_attachments(s)) = 1
           /\ get_output_attachments(s)[1] = 0
           /\ Len(get_input_attachments(s)) = 0
           /\ ~use_dynamic_resources[s]

====
